---------------------------- MODULE Spec2Model ----------------------------
(***************************************************************************)
(* kconnect discovery plugins: the plugin registration of the AKS provider *)
(* (init, New, setup of package azure) and the Discover call of the EKS    *)
(* provider (Discover, listClusters, getClusterConfig of package aws).     *)
(*                                                                         *)
(* Discover calls p.setup first; the setup modelled here is the one the    *)
(* sources hold (aksClusterProvider.setup).  The cloud SDK (list and       *)
(* describe) is an external collaborator: each call returns any value of   *)
(* a small set of results, or an error.                                    *)
(*                                                                         *)
(* Errors are chains: a sequence of frames, outermost first, the root      *)
(* cause last; <<>> is the nil error.  fmt.Errorf("text: %w", err) puts    *)
(* one frame in front of err.                                              *)
(***************************************************************************)
EXTENDS Integers, Sequences, FiniteSets, TLC

VARIABLES
    registry,       \* the process-wide catalog: name -> registration
    regLog,         \* history: every RegisterDiscoveryPlugin call and its result
    lastLookup,     \* the result of the last registry lookup
    initDone,       \* package azure's init() has run
    exited,         \* zap Fatalw ended the process
    pc,             \* position of the provider / of the running Discover call
    newResult,      \* what New returned last
    config,         \* p.config
    authorizer,     \* p.authorizer
    input,          \* the DiscoverInput of the running call
    ctxCanceled,    \* the ctx of the running call has been canceled
    clusters,       \* Discover's local: the listed cluster names
    idx,            \* Discover's loop position in clusters
    discoverOutput, \* Discover's local: the output being assembled
    setupErr,       \* what p.setup returned in the running call
    ret,            \* what Discover returned: [out, err]
    calls,          \* history: the collaborator calls of the running call
    ncalls,         \* number of Discover calls started on this instance
    aux,            \* the last ConfigurationItems / ListPreReqs / CheckPreReqs
                    \* call made while no Discover call runs, and its result
    provs,          \* concurrent callers: the fields of each provider instance
    invs            \* concurrent callers: each Discover invocation's position,
                    \* input, instance and what it read from the instance

regVars == <<registry, regLog, lastLookup, initDone, exited>>
provVars == <<pc, newResult, config, authorizer, input, ctxCanceled, clusters,
              idx, discoverOutput, setupErr, ret, calls, ncalls, aux>>
vars == <<registry, regLog, lastLookup, initDone, exited, pc, newResult, config,
          authorizer, input, ctxCanceled, clusters, idx, discoverOutput,
          setupErr, ret, calls, ncalls, aux, provs, invs>>

concVars == <<provs, invs>>

---------------------------------------------------------------------------
(* Bounds *)

MaxClusters == 2
MaxCalls == 2
MaxRegs == 3

---------------------------------------------------------------------------
(* Errors *)

NoError == <<>>

\* one message of a chain: its text, and the provider, identity provider and
\* cluster names the text holds
Frame(text, names) == [text |-> text, names |-> names]

\* fmt.Errorf("<frame>: %w", err)
Wrap(frame, err) == <<frame>> \o err

\* the package-level sentinel returned by setup's default arm: one fixed
\* value, built from neither the identity nor the provider
ErrUnsupportedIdentity == <<Frame("ErrUnsupportedIdentity", {})>>

ErrHTTPClientRequired == <<Frame("ErrHTTPClientRequired", {})>>

\* an error of config.Unmarshall
ErrUnmarshall == <<Frame("config: type mismatch", {})>>

\* errors of the cloud SDK
SdkErrors == {<<Frame("AccessDeniedException: not authorized to perform eks:*", {"eks"})>>,
              <<Frame("RequestError: send request failed", {})>>}

---------------------------------------------------------------------------
(* Identities, authorizers, configuration *)

NilAuthorizer == [kind |-> "nil", token |-> "", name |-> ""]

PrebuiltAuthorizers == {[kind |-> "env", token |-> "", name |-> "authz1"],
                        [kind |-> "env", token |-> "", name |-> "authz2"]}

\* identity.Identity values: the dynamic type, the identity provider that
\* produced the value, and the credential material
Identities ==
    {[variant |-> "oidc.Identity", idp |-> "aad", token |-> "tokA",
      authorizer |-> NilAuthorizer],
     [variant |-> "oidc.Identity", idp |-> "oidc", token |-> "tokO",
      authorizer |-> NilAuthorizer]}
    \cup {[variant |-> "azid.AuthorizerIdentity", idp |-> "az-env", token |-> "",
           authorizer |-> a] : a \in PrebuiltAuthorizers}
    \cup {[variant |-> "aws.Identity", idp |-> "aws-iam", token |-> "",
           authorizer |-> NilAuthorizer],
          [variant |-> "identity.TokenIdentity", idp |-> "static-token",
           token |-> "tokT", authorizer |-> NilAuthorizer]}

\* autorest.NewBearerAuthorizer(id)
NewBearerAuthorizer(id) == [kind |-> "bearer", token |-> id.token, name |-> ""]

NilConfig == [isNil |-> TRUE, Admin |-> FALSE, ClusterName |-> ""]

\* configuration sets handed to Discover: item name -> value as text
ConfigSets == [admin : {"true", "false", "maybe"}, clusterName : {"c1"}]

UnmarshallOk(cs) == cs.admin \in {"true", "false"}

\* config.Unmarshall(cs, cfg): binds the items to the typed configuration
Unmarshall(cs) ==
    IF UnmarshallOk(cs)
    THEN [err |-> NoError,
          cfg |-> [isNil |-> FALSE, Admin |-> (cs.admin = "true"),
                   ClusterName |-> cs.clusterName]]
    ELSE [err |-> ErrUnmarshall, cfg |-> NilConfig]

---------------------------------------------------------------------------
(* Configuration items *)

SubscriptionIDConfigItem == "subscription-id"

SubscriptionNameConfigItem == "subscription-name"

ResourceGroupConfigItem == "resource-group"

AdminConfigItem == "admin"

ClusterNameConfigItem == "cluster-name"

\* config.NewConfigurationSet(): an ordered set of items, empty
NewConfigurationSet == <<>>

csHas(cs, name) == \E i \in 1..Len(cs) : cs[i].name = name

\* adds an item unless the name is taken (the error is dropped by the caller)
csAdd(cs, name, kind, default, description) ==
    IF csHas(cs, name)
    THEN cs
    ELSE Append(cs, [name |-> name, kind |-> kind, default |-> default,
                     description |-> description, short |-> ""])

\* cs.String(name, default, description)
csString(cs, name, default, description) ==
    csAdd(cs, name, "string", default, description)

\* cs.Bool(name, default, description); the default as the flag's text
csBool(cs, name, default, description) ==
    csAdd(cs, name, "bool", IF default THEN "true" ELSE "false", description)

\* cs.SetShort(name, short): the short alias of an item of the set
csSetShort(cs, name, short) ==
    [i \in 1..Len(cs) |->
        IF cs[i].name = name THEN [cs[i] EXCEPT !.short = short] ELSE cs[i]]

\* a ConfigurationItems that gives the alias to the wrong item when scoped
ConfigurationItemsScoped(scopeTo) ==
    LET cs1 == csString(NewConfigurationSet, SubscriptionIDConfigItem, "",
                        "The Azure subscription to use (specified by ID)")
        cs2 == csString(cs1, SubscriptionNameConfigItem, "",
                        "The Azure subscription to use (specified by name)")
        cs3 == csString(cs2, ResourceGroupConfigItem, "",
                        "The Azure resource group to use")
        cs4 == csBool(cs3, AdminConfigItem, FALSE, "Generate admin user kubeconfig")
        cs5 == csString(cs4, ClusterNameConfigItem, "", "The name of the AKS cluster")
        cs6 == csSetShort(cs5, IF scopeTo = "" THEN ResourceGroupConfigItem
                               ELSE ClusterNameConfigItem, "r")
    IN [cs |-> cs6, err |-> NoError]

\* func ConfigurationItems(scopeTo)
ConfigurationItems(scopeTo) ==
    LET cs1 == csString(NewConfigurationSet, SubscriptionIDConfigItem, "",
                        "The Azure subscription to use (specified by ID)")
        cs2 == csString(cs1, SubscriptionNameConfigItem, "",
                        "The Azure subscription to use (specified by name)")
        cs3 == csString(cs2, ResourceGroupConfigItem, "",
                        "The Azure resource group to use")
        cs4 == csBool(cs3, AdminConfigItem, FALSE, "Generate admin user kubeconfig")
        cs5 == csString(cs4, ClusterNameConfigItem, "", "The name of the AKS cluster")
        cs6 == csSetShort(cs5, ResourceGroupConfigItem, "r")
    IN [cs |-> cs6, err |-> NoError]

ScopeValues == {"", "aad", "az-env", "oidc"}

\* the provider's fields at the time of a call
Fields(cfg, auth) == [config |-> cfg, authorizer |-> auth]

NoAux == [op |-> "", arg |-> "", items |-> <<>>, err |-> NoError,
          before |-> Fields(NilConfig, NilAuthorizer)]

---------------------------------------------------------------------------
(* Registry *)

ProviderName == "aks"

SupportedIdentityProviders == {"aad", "az-env"}

\* the registration init() hands to the registry
AksRegistration ==
    [Name |-> ProviderName, CreateFunc |-> "azure.New",
     SupportedIdentityProviders |-> SupportedIdentityProviders]

Registrations ==
    {AksRegistration,
     [Name |-> "aks", CreateFunc |-> "other.New",
      SupportedIdentityProviders |-> {"saml"}],
     [Name |-> "eks", CreateFunc |-> "aws.New",
      SupportedIdentityProviders |-> {"saml", "aws-iam"}]}

NotFound == [Name |-> "", CreateFunc |-> "", SupportedIdentityProviders |-> {}]

ErrDuplicateName == <<Frame("DuplicateNameError", {})>>

ErrNotFound == <<Frame("NotFoundError", {})>>

EmptyRegistry == [n \in {} |-> NotFound]

Put(m, k, v) == [x \in DOMAIN m \cup {k} |-> IF x = k THEN v ELSE m[x]]

\* a registry without the duplicate check: the last registration wins
RegistryInsertOverwriting(m, reg) ==
    [registry |-> Put(m, reg.Name, reg), err |-> NoError]

\* registry.RegisterDiscoveryPlugin: a name already present is refused and
\* the catalog is left as it was
RegistryInsert(m, reg) ==
    IF reg.Name \in DOMAIN m
    THEN [registry |-> m, err |-> ErrDuplicateName]
    ELSE [registry |-> Put(m, reg.Name, reg), err |-> NoError]

\* registry lookup by name
RegistryLookup(m, name) ==
    IF name \in DOMAIN m
    THEN [reg |-> m[name], err |-> NoError]
    ELSE [reg |-> NotFound, err |-> ErrNotFound]

NoLookup == [name |-> "", reg |-> NotFound, err |-> NoError]

\* another plugin's initializer registers itself
RegisterDiscoveryPlugin(reg) ==
    /\ ~exited
    /\ Len(regLog) < MaxRegs
    /\ LET r == RegistryInsert(registry, reg) IN
        /\ registry' = r.registry
        /\ regLog' = Append(regLog, [by |-> "plugin", reg |-> reg, err |-> r.err])
    /\ UNCHANGED <<lastLookup, initDone, exited>>
    /\ UNCHANGED provVars
    /\ UNCHANGED concVars

\* func init(): registers the AKS plugin; a refused registration is fatal
init ==
    /\ ~exited
    /\ ~initDone
    /\ Len(regLog) < MaxRegs
    /\ LET r == RegistryInsert(registry, AksRegistration) IN
        /\ registry' = r.registry
        /\ regLog' = Append(regLog, [by |-> "azure.init", reg |-> AksRegistration,
                                     err |-> r.err])
        /\ exited' = (r.err # NoError)
    /\ initDone' = TRUE
    /\ UNCHANGED lastLookup
    /\ UNCHANGED provVars
    /\ UNCHANGED concVars

Lookup(name) ==
    /\ ~exited
    /\ LET r == RegistryLookup(registry, name) IN
        lastLookup' = [name |-> name, reg |-> r.reg, err |-> r.err]
    /\ UNCHANGED <<registry, regLog, initDone, exited>>
    /\ UNCHANGED provVars
    /\ UNCHANGED concVars

---------------------------------------------------------------------------
(* The cloud SDK collaborator *)

ClusterNames == {"a", "b"}

Arns == {"arn:1", "arn:2"}

BoundedSeq(S, n) == UNION {[1..k -> S] : k \in 0..n}

NoSdkCluster == [Arn |-> "", Name |-> "", Endpoint |-> "nil", CA |-> "nil"]

\* what ListClustersPages may deliver: all pages drained, or an error
SdkListResults ==
    {[err |-> NoError, names |-> ns] : ns \in BoundedSeq(ClusterNames, MaxClusters)}
    \cup {[err |-> e, names |-> <<>>] : e \in SdkErrors}

\* what DescribeCluster may return for a name; Endpoint and CA are optional
SdkDescribeResults(name) ==
    {[err |-> NoError,
      out |-> [Arn |-> a, Name |-> name, Endpoint |-> o[1], CA |-> o[2]]] :
        a \in Arns, o \in {<<"nil", "nil">>, <<"https://k8s", "Q0E=">>}}
    \cup {[err |-> e, out |-> NoSdkCluster] : e \in {<<Frame("ResourceNotFoundException", {})>>}}

---------------------------------------------------------------------------
(* The provider *)

\* a New that does not look at the HTTP client
NewWithoutCheck(in) ==
    [provider |-> TRUE, config |-> NilConfig, authorizer |-> NilAuthorizer,
     err |-> NoError]

\* func New: refuses a creation input without an HTTP client; otherwise
\* &aksClusterProvider{}, both fields at their zero value
New(in) ==
    IF in.HTTPClient = "nil"
    THEN [provider |-> FALSE, config |-> NilConfig, authorizer |-> NilAuthorizer,
          err |-> ErrHTTPClientRequired]
    ELSE [provider |-> TRUE, config |-> NilConfig, authorizer |-> NilAuthorizer,
          err |-> NoError]

NoNew == [provider |-> FALSE, config |-> NilConfig, authorizer |-> NilAuthorizer,
          err |-> NoError]

\* a switch that keeps an authorizer the instance already holds
setupDispatchCached(userID, auth) ==
    CASE userID.variant = "oidc.Identity" ->
            [authorizer |-> IF auth.kind = "nil" THEN NewBearerAuthorizer(userID)
                            ELSE auth,
             err |-> NoError]
      [] userID.variant = "azid.AuthorizerIdentity" ->
            [authorizer |-> IF auth.kind = "nil" THEN userID.authorizer ELSE auth,
             err |-> NoError]
      [] OTHER ->
            [authorizer |-> auth, err |-> ErrUnsupportedIdentity]

\* a switch whose default arm drops the authorizer of the instance
setupDispatchClearing(userID, auth) ==
    CASE userID.variant = "oidc.Identity" ->
            [authorizer |-> NewBearerAuthorizer(userID), err |-> NoError]
      [] userID.variant = "azid.AuthorizerIdentity" ->
            [authorizer |-> userID.authorizer, err |-> NoError]
      [] OTHER ->
            [authorizer |-> NilAuthorizer, err |-> ErrUnsupportedIdentity]

\* a switch whose default arm falls through to the return nil
setupDispatchNoDefault(userID, auth) ==
    CASE userID.variant = "oidc.Identity" ->
            [authorizer |-> NewBearerAuthorizer(userID), err |-> NoError]
      [] userID.variant = "azid.AuthorizerIdentity" ->
            [authorizer |-> userID.authorizer, err |-> NoError]
      [] OTHER ->
            [authorizer |-> auth, err |-> NoError]

\* the type switch of setup: the authorizer field after it, and the error
setupDispatch(userID, auth) ==
    CASE userID.variant = "oidc.Identity" ->
            [authorizer |-> NewBearerAuthorizer(userID), err |-> NoError]
      [] userID.variant = "azid.AuthorizerIdentity" ->
            [authorizer |-> userID.authorizer, err |-> NoError]
      [] OTHER ->
            [authorizer |-> auth, err |-> ErrUnsupportedIdentity]

\* a setup that assigns p.config before it looks at the error of Unmarshall
setupBindEarlyAssign(cs, cfg) ==
    LET r == Unmarshall(cs) IN
    IF r.err # NoError
    THEN [config |-> r.cfg,
          err |-> Wrap(Frame("unmarshalling config items into eksClusteProviderConfig",
                             {}), r.err)]
    ELSE [config |-> r.cfg, err |-> NoError]

\* the first half of setup: unmarshal, and bind the config on success
setupBind(cs, cfg) ==
    LET r == Unmarshall(cs) IN
    IF r.err # NoError
    THEN [config |-> cfg,
          err |-> Wrap(Frame("unmarshalling config items into eksClusteProviderConfig",
                             {}), r.err)]
    ELSE [config |-> r.cfg, err |-> NoError]

EmptyClusters == [k \in {} |-> [ID |-> "", Name |-> "", ControlPlaneEndpoint |-> "nil",
                                CertificateAuthorityData |-> "nil"]]

\* a nil *DiscoverOutput; ClustersIsNil tells a nil map from an empty one
NoOutput == [isNil |-> TRUE, DiscoveryProvider |-> "", IdentityProvider |-> "",
             ClustersIsNil |-> TRUE, Clusters |-> EmptyClusters]

NoReturn == [out |-> NoOutput, err |-> NoError]

NoInput == [ConfigSet |-> [admin |-> "false", clusterName |-> ""],
            Identity |-> [variant |-> "", idp |-> "", token |-> "",
                          authorizer |-> NilAuthorizer]]

\* a Discover that drops the error of p.setup and goes on to list
DiscoverAfterSetupIgnoringError(err) == [pc |-> "list", ret |-> NoReturn]

\* Discover after p.setup returned: the setup error ends the call
DiscoverAfterSetup(err) ==
    IF err # NoError
    THEN [pc |-> "returned",
          ret |-> [out |-> NoOutput,
                   err |-> Wrap(Frame("setting up eks provider", {"eks"}), err)]]
    ELSE [pc |-> "list", ret |-> NoReturn]

\* a listClusters that formats the SDK error away instead of wrapping it
listClustersDroppingCause(sdk) ==
    IF sdk.err # NoError
    THEN [clusters |-> <<>>, err |-> <<Frame("listing clusters", {})>>]
    ELSE [clusters |-> sdk.names, err |-> NoError]

\* func listClusters: the names of all pages, or the wrapped SDK error
listClusters(sdk) ==
    IF sdk.err # NoError
    THEN [clusters |-> <<>>, err |-> Wrap(Frame("listing clusters", {}), sdk.err)]
    ELSE [clusters |-> sdk.names, err |-> NoError]

\* Discover when listClusters failed
DiscoverListFailed(err) ==
    [out |-> NoOutput, err |-> Wrap(Frame("listing clusters", {}), err)]

\* the output Discover allocates once the list call has succeeded
NewDiscoverOutput ==
    [isNil |-> FALSE, DiscoveryProvider |-> "eks", IdentityProvider |-> "aws",
     ClustersIsNil |-> FALSE, Clusters |-> EmptyClusters]

\* a Discover that reports an empty listing as a failure
DiscoverNoClustersAsError(out) ==
    [out |-> NoOutput, err |-> <<Frame("no clusters found", {})>>]

\* Discover when no cluster was listed
DiscoverNoClusters(out) == [out |-> out, err |-> NoError]

NoCluster == [ID |-> "", Name |-> "", ControlPlaneEndpoint |-> "nil",
              CertificateAuthorityData |-> "nil"]

\* func getClusterConfig: the normalized cluster, or the wrapped SDK error
getClusterConfig(clusterName, sdk) ==
    IF sdk.err # NoError
    THEN [cluster |-> NoCluster,
          err |-> Wrap(Frame("describing cluster", {clusterName}), sdk.err)]
    ELSE [cluster |-> [ID |-> sdk.out.Arn, Name |-> sdk.out.Name,
                       ControlPlaneEndpoint |-> sdk.out.Endpoint,
                       CertificateAuthorityData |-> sdk.out.CA],
          err |-> NoError]

\* a Discover that hands back what it assembled before the failure
DiscoverDescribeFailedPartial(out, err) ==
    [out |-> out, err |-> Wrap(Frame("getting cluster config", {}), err)]

\* Discover when getClusterConfig failed: the output assembled so far is dropped
DiscoverDescribeFailed(out, err) ==
    [out |-> NoOutput, err |-> Wrap(Frame("getting cluster config", {}), err)]

\* a Discover that keys the map by the cluster's name
StoreClusterByName(out, clusterDetail) ==
    [out EXCEPT !.Clusters = Put(@, clusterDetail.Name, clusterDetail)]

\* discoverOutput.Clusters[clusterDetail.ID] = clusterDetail
StoreCluster(out, clusterDetail) ==
    [out EXCEPT !.Clusters = Put(@, clusterDetail.ID, clusterDetail)]

\* a Discover that returns nil, nil after the loop
DiscoverCompletedNil(out) == [out |-> NoOutput, err |-> NoError]

\* Discover after the loop
DiscoverCompleted(out) == [out |-> out, err |-> NoError]

---------------------------------------------------------------------------
(* Actions of one provider instance *)

CreationInputs == [HTTPClient : {"nil", "client"}]

DiscoverInputs == [ConfigSet : ConfigSets, Identity : Identities]

\* the registry's CreateFunc is called: New(input)
NewProvider(in) ==
    /\ pc = "none"
    /\ LET r == New(in) IN
        /\ newResult' = r
        /\ pc' = IF r.provider THEN "created" ELSE "none"
        /\ config' = IF r.provider THEN r.config ELSE config
        /\ authorizer' = IF r.provider THEN r.authorizer ELSE authorizer
    /\ UNCHANGED <<input, ctxCanceled, clusters, idx, discoverOutput, setupErr,
                   ret, calls, ncalls, aux>>
    /\ UNCHANGED regVars
    /\ UNCHANGED concVars

\* Discover(ctx, input) is called on the instance
DiscoverBegin(in) ==
    /\ pc \in {"created", "returned"}
    /\ ncalls < MaxCalls
    /\ ncalls' = ncalls + 1
    /\ input' = in
    /\ pc' = "setup"
    /\ ctxCanceled' = FALSE
    /\ clusters' = <<>>
    /\ idx' = 0
    /\ discoverOutput' = NoOutput
    /\ setupErr' = NoError
    /\ ret' = NoReturn
    /\ calls' = <<>>
    /\ aux' = NoAux
    /\ UNCHANGED <<newResult, config, authorizer>>
    /\ UNCHANGED regVars
    /\ UNCHANGED concVars

\* setup, first half: config.Unmarshall and p.config = cfg
SetupUnmarshall ==
    /\ pc = "setup"
    /\ LET r == setupBind(input.ConfigSet, config) IN
        /\ config' = r.config
        /\ setupErr' = r.err
        /\ IF r.err # NoError
           THEN /\ pc' = DiscoverAfterSetup(r.err).pc
                /\ ret' = DiscoverAfterSetup(r.err).ret
           ELSE /\ pc' = "dispatch"
                /\ ret' = ret
    /\ UNCHANGED <<newResult, authorizer, input, ctxCanceled, clusters, idx,
                   discoverOutput, calls, ncalls, aux>>
    /\ UNCHANGED regVars
    /\ UNCHANGED concVars

\* setup, second half: the switch on the identity's type; setup returns
SetupDispatch ==
    /\ pc = "dispatch"
    /\ LET r == setupDispatch(input.Identity, authorizer) IN
        /\ authorizer' = r.authorizer
        /\ setupErr' = r.err
        /\ pc' = DiscoverAfterSetup(r.err).pc
        /\ ret' = DiscoverAfterSetup(r.err).ret
    /\ UNCHANGED <<newResult, config, input, ctxCanceled, clusters, idx,
                   discoverOutput, calls, ncalls, aux>>
    /\ UNCHANGED regVars
    /\ UNCHANGED concVars

\* setup has returned nil: Discover logs "discovering EKS clusters" and issues
\* the list call
DiscoverListing ==
    /\ pc = "list"
    /\ pc' = "listing"
    /\ UNCHANGED <<newResult, config, authorizer, input, ctxCanceled, clusters, idx,
                   discoverOutput, setupErr, ret, calls, ncalls, aux>>
    /\ UNCHANGED regVars
    /\ UNCHANGED concVars

\* the caller cancels ctx while a list or describe call is still to come
CancelCtx ==
    /\ pc \in {"list", "listing", "describe"}
    /\ ~ctxCanceled
    /\ ctxCanceled' = TRUE
    /\ UNCHANGED <<pc, newResult, config, authorizer, input, clusters, idx,
                   discoverOutput, setupErr, ret, calls, ncalls, aux>>
    /\ UNCHANGED regVars
    /\ UNCHANGED concVars

\* p.listClusters() returns, and what Discover does with its result
ListClusters(sdk) ==
    /\ pc = "listing"
    /\ calls' = Append(calls, [op |-> "list", arg |-> "", ctxDone |-> ctxCanceled,
                               err |-> sdk.err, names |-> sdk.names,
                               out |-> NoSdkCluster])
    /\ LET r == listClusters(sdk) IN
        IF r.err # NoError
        THEN /\ ret' = DiscoverListFailed(r.err)
             /\ pc' = "returned"
             /\ UNCHANGED <<clusters, idx, discoverOutput>>
        ELSE /\ clusters' = r.clusters
             /\ discoverOutput' = NewDiscoverOutput
             /\ IF Len(r.clusters) = 0
                THEN /\ ret' = DiscoverNoClusters(NewDiscoverOutput)
                     /\ pc' = "returned"
                     /\ idx' = idx
                ELSE /\ ret' = ret
                     /\ pc' = "describe"
                     /\ idx' = 1
    /\ UNCHANGED <<newResult, config, authorizer, input, ctxCanceled, setupErr,
                   ncalls, aux>>
    /\ UNCHANGED regVars
    /\ UNCHANGED concVars

\* a loop that keeps describing the first name of the list
clusterNameFirst(cs, i) == cs[1]

\* for _, clusterName := range clusters: the name of the i-th turn
clusterName(cs, i) == cs[i]

\* one turn of the loop: p.getClusterConfig(*clusterName)
DescribeStep(sdk) ==
    /\ calls' = Append(calls, [op |-> "describe", arg |-> clusterName(clusters, idx),
                               ctxDone |-> ctxCanceled, err |-> sdk.err,
                               names |-> <<>>, out |-> sdk.out])
    /\ LET r == getClusterConfig(clusterName(clusters, idx), sdk) IN
        IF r.err # NoError
        THEN /\ ret' = DiscoverDescribeFailed(discoverOutput, r.err)
             /\ pc' = "returned"
             /\ UNCHANGED <<idx, discoverOutput>>
        ELSE /\ discoverOutput' = StoreCluster(discoverOutput, r.cluster)
             /\ IF idx = Len(clusters)
                THEN /\ ret' = DiscoverCompleted(StoreCluster(discoverOutput, r.cluster))
                     /\ pc' = "returned"
                     /\ idx' = idx
                ELSE /\ ret' = ret
                     /\ pc' = pc
                     /\ idx' = idx + 1
    /\ UNCHANGED <<newResult, config, authorizer, input, ctxCanceled, clusters,
                   setupErr, ncalls, aux>>
    /\ UNCHANGED regVars
    /\ UNCHANGED concVars

DescribeCluster ==
    /\ pc = "describe"
    /\ \E sdk \in SdkDescribeResults(clusterName(clusters, idx)) : DescribeStep(sdk)

\* a CheckPreReqs that wants the provider set up first
CheckPreReqsNeedsSetup(p) ==
    [p |-> p,
     err |-> IF p.config.isNil THEN <<Frame("provider not configured", {})>>
             ELSE NoError]

\* func (p) ListPreReqs(): the provider's fields after it, and the result
ListPreReqs(p) == [p |-> p, prereqs |-> <<>>]

\* func (p) CheckPreReqs()
CheckPreReqs(p) == [p |-> p, err |-> NoError]

ListPreReqsCall ==
    /\ pc \in {"created", "returned"}
    /\ LET r == ListPreReqs(Fields(config, authorizer)) IN
        /\ aux' = [op |-> "ListPreReqs", arg |-> "", items |-> r.prereqs,
                   err |-> NoError, before |-> Fields(config, authorizer)]
        /\ config' = r.p.config
        /\ authorizer' = r.p.authorizer
    /\ UNCHANGED <<pc, newResult, input, ctxCanceled, clusters, idx,
                   discoverOutput, setupErr, ret, calls, ncalls>>
    /\ UNCHANGED regVars
    /\ UNCHANGED concVars

CheckPreReqsCall ==
    /\ pc \in {"created", "returned"}
    /\ LET r == CheckPreReqs(Fields(config, authorizer)) IN
        /\ aux' = [op |-> "CheckPreReqs", arg |-> "", items |-> <<>>,
                   err |-> r.err, before |-> Fields(config, authorizer)]
        /\ config' = r.p.config
        /\ authorizer' = r.p.authorizer
    /\ UNCHANGED <<pc, newResult, input, ctxCanceled, clusters, idx,
                   discoverOutput, setupErr, ret, calls, ncalls>>
    /\ UNCHANGED regVars
    /\ UNCHANGED concVars

\* ConfigurationItems(scopeTo) is called (by the registry's user, for the
\* command's flags)
ConfigurationItemsCall(scopeTo) ==
    /\ pc \in {"none", "created", "returned"}
    /\ LET r == ConfigurationItems(scopeTo) IN
        aux' = [op |-> "ConfigurationItems", arg |-> scopeTo, items |-> r.cs,
                err |-> r.err, before |-> Fields(config, authorizer)]
    /\ UNCHANGED <<pc, newResult, config, authorizer, input, ctxCanceled, clusters,
                   idx, discoverOutput, setupErr, ret, calls, ncalls>>
    /\ UNCHANGED regVars
    /\ UNCHANGED concVars

---------------------------------------------------------------------------
(* Two Discover invocations that run concurrently *)

Invocations == {"A", "B"}

Other(k) == CHOOSE j \in Invocations : j # k

NoFields == Fields(NilConfig, NilAuthorizer)

NoInvocation == [pc |-> "idle", newCall |-> "", input |-> NoInput, left |-> 0,
                 failed |-> FALSE, observed |-> NoFields]

\* a New that hands every caller the same instance
NewInstanceShared(call) == "A"

\* New returns &aksClusterProvider{}: each New call makes an instance of its
\* own; an instance is named after the call that made it
NewInstance(call) == call

\* the instance invocation k runs on
InstanceOf(k) == NewInstance(invs[k].newCall)

\* an interface value accessed while another goroutine writes it: the type
\* word of one value with the data word of the other
Torn(a, b) == [kind |-> a.kind, token |-> b.token, name |-> b.name]

\* the authorizers other invocations are about to write into k's instance
RacingWrites(k) ==
    {setupDispatch(invs[j].input.Identity, NilAuthorizer).authorizer :
        j \in {i \in Invocations \ {k} :
                /\ invs[i].pc = "dispatch"
                /\ InstanceOf(i) = InstanceOf(k)
                /\ setupDispatch(invs[i].input.Identity, NilAuthorizer).err = NoError}}

\* p.authorizer is read and written without synchronization: an access of the
\* value v that races with a write yields v or a torn value
RaceOutcomes(k, v) ==
    {v} \cup {Torn(v, w) : w \in RacingWrites(k)}
        \cup {Torn(w, v) : w \in RacingWrites(k)}

\* what a collaborator call of invocation k reads from its instance
Observe(k) ==
    {Fields(provs[InstanceOf(k)].config, a) :
        a \in RaceOutcomes(k, provs[InstanceOf(k)].authorizer)}

\* a caller starts Discover(ctx, in) on the instance the New call `call` made;
\* the two invocations carry different identities
ConcDiscoverBegin(k, in, call) ==
    /\ invs[k].pc = "idle"
    /\ invs[Other(k)].pc # "idle" => in.Identity # invs[Other(k)].input.Identity
    /\ invs' = [invs EXCEPT ![k] = [@ EXCEPT !.pc = "setup", !.input = in,
                                              !.newCall = call]]
    /\ UNCHANGED provs
    /\ UNCHANGED regVars
    /\ UNCHANGED provVars

\* setup, first half, in invocation k
ConcSetupUnmarshall(k) ==
    /\ invs[k].pc = "setup"
    /\ LET p == InstanceOf(k)
           r == setupBind(invs[k].input.ConfigSet, provs[p].config) IN
        /\ provs' = [provs EXCEPT ![p].config = r.config]
        /\ invs' = [invs EXCEPT ![k] =
                        [@ EXCEPT !.pc = IF r.err # NoError
                                         THEN DiscoverAfterSetup(r.err).pc
                                         ELSE "dispatch",
                                  !.failed = r.err # NoError]]
    /\ UNCHANGED regVars
    /\ UNCHANGED provVars

\* setup, second half, in invocation k: the write of p.authorizer
ConcSetupDispatch(k) ==
    /\ invs[k].pc = "dispatch"
    /\ LET p == InstanceOf(k)
           r == setupDispatch(invs[k].input.Identity, provs[p].authorizer) IN
        /\ \E a \in (IF r.err = NoError THEN RaceOutcomes(k, r.authorizer)
                     ELSE {r.authorizer}) :
            provs' = [provs EXCEPT ![p].authorizer = a]
        /\ invs' = [invs EXCEPT ![k] =
                        [@ EXCEPT !.pc = DiscoverAfterSetup(r.err).pc,
                                  !.failed = r.err # NoError]]
    /\ UNCHANGED regVars
    /\ UNCHANGED provVars

\* the list call of invocation k, made with what it reads from its instance
ConcListClusters(k, sdk) ==
    /\ invs[k].pc = "list"
    /\ LET r == listClusters(sdk) IN
        \E o \in Observe(k) :
            invs' = [invs EXCEPT ![k] =
                        [@ EXCEPT !.observed = o,
                                  !.left = Len(r.clusters),
                                  !.failed = r.err # NoError,
                                  !.pc = IF r.err # NoError \/ Len(r.clusters) = 0
                                         THEN "returned" ELSE "describe"]]
    /\ UNCHANGED provs
    /\ UNCHANGED regVars
    /\ UNCHANGED provVars

\* one describe call of invocation k; ok tells whether the call succeeded
ConcDescribeCluster(k, ok) ==
    /\ invs[k].pc = "describe"
    /\ \E o \in Observe(k) :
        invs' = [invs EXCEPT ![k] =
                    [@ EXCEPT !.observed = o,
                              !.left = IF ok THEN @ - 1 ELSE @,
                              !.failed = ~ok,
                              !.pc = IF ~ok \/ invs[k].left = 1
                                     THEN "returned" ELSE "describe"]]
    /\ UNCHANGED provs
    /\ UNCHANGED regVars
    /\ UNCHANGED provVars

---------------------------------------------------------------------------
(* Specifications *)

ProvInit ==
    /\ pc = "none"
    /\ newResult = NoNew
    /\ config = NilConfig
    /\ authorizer = NilAuthorizer
    /\ input = NoInput
    /\ ctxCanceled = FALSE
    /\ clusters = <<>>
    /\ idx = 0
    /\ discoverOutput = NoOutput
    /\ setupErr = NoError
    /\ ret = NoReturn
    /\ calls = <<>>
    /\ ncalls = 0
    /\ aux = NoAux
    /\ provs = [c \in Invocations |-> NoFields]
    /\ invs = [k \in Invocations |-> NoInvocation]

\* the process after its initializers have run: the AKS plugin is registered
Init ==
    /\ registry = Put(EmptyRegistry, ProviderName, AksRegistration)
    /\ regLog = <<[by |-> "azure.init", reg |-> AksRegistration, err |-> NoError]>>
    /\ lastLookup = NoLookup
    /\ initDone = TRUE
    /\ exited = FALSE
    /\ ProvInit

Next ==
    \/ \E in \in CreationInputs : NewProvider(in)
    \/ \E in \in DiscoverInputs : DiscoverBegin(in)
    \/ SetupUnmarshall
    \/ SetupDispatch
    \/ DiscoverListing
    \/ CancelCtx
    \/ \E sdk \in SdkListResults : ListClusters(sdk)
    \/ DescribeCluster

Spec == Init /\ [][Next]_vars

\* the same instance, with the calls a caller may make between Discover calls
NextAux ==
    \/ Next
    \/ \E scopeTo \in ScopeValues : ConfigurationItemsCall(scopeTo)
    \/ ListPreReqsCall
    \/ CheckPreReqsCall

SpecAux == Init /\ [][NextAux]_vars

\* the process while its initializers run, in no defined order
InitRegistry ==
    /\ registry = EmptyRegistry
    /\ regLog = <<>>
    /\ lastLookup = NoLookup
    /\ initDone = FALSE
    /\ exited = FALSE
    /\ ProvInit

NextRegistry ==
    \/ init
    \/ \E reg \in Registrations : RegisterDiscoveryPlugin(reg)
    \/ \E name \in {"aks", "eks", "gke"} : Lookup(name)

SpecRegistry == InitRegistry /\ [][NextRegistry]_vars

\* two callers, each with a provider instance from New, or both with one
NextConcurrent ==
    \E k \in Invocations :
        \/ \E in \in DiscoverInputs, call \in Invocations : ConcDiscoverBegin(k, in, call)
        \/ ConcSetupUnmarshall(k)
        \/ ConcSetupDispatch(k)
        \/ \E sdk \in SdkListResults : ConcListClusters(k, sdk)
        \/ \E ok \in BOOLEAN : ConcDescribeCluster(k, ok)

SpecConcurrent == Init /\ [][NextConcurrent]_vars

---------------------------------------------------------------------------
(* Properties *)

Returned == pc = "returned"

\* the original error of a chain
Root(err) == err[Len(err)]

\* the chain's text holds the name
Mentions(err, name) == \E i \in 1..Len(err) : name \in err[i].names

LastCall == calls[Len(calls)]

DescribeFailedAt(k) ==
    /\ k \in 1..Len(calls)
    /\ calls[k].op = "describe"
    /\ calls[k].err # NoError

\* setup reached the switch in the running call and the switch has run
Dispatched ==
    /\ pc \in {"list", "listing", "describe", "returned"}
    /\ UnmarshallOk(input.ConfigSet)

\* C1: when a describe call fails, at whatever position of the list, Discover
\* returns an error and a nil output: the clusters described before the
\* failure are not returned.
C1_FailFastNoPartialResult ==
    (Returned /\ \E k \in 1..Len(calls) : DescribeFailedAt(k))
        => /\ ret.err # NoError
           /\ ret.out.isNil
           /\ DOMAIN ret.out.Clusters = {}

\* a describe failed after an earlier describe had succeeded and its cluster
\* had been stored in the output under assembly
C1_Witness ==
    /\ Returned
    /\ Len(calls) = 3
    /\ calls[2].err = NoError
    /\ DescribeFailedAt(3)
    /\ DOMAIN discoverOutput.Clusters # {}
    /\ ret.out.isNil

\* C2: once ctx is canceled during the list/describe sequence, Discover
\* returns a CanceledError and no output, and no list or describe call is
\* made with the canceled ctx.
C2_CancelYieldsCanceledError ==
    /\ \A k \in 1..Len(calls) : ~calls[k].ctxDone
    /\ (Returned /\ ctxCanceled)
        => /\ ret.out.isNil
           /\ ret.err # NoError
           /\ Root(ret.err).text = "context canceled"

\* C3: the switch of setup: an oidc.Identity yields a bearer authorizer over
\* that identity, an AuthorizerIdentity yields the authorizer it carries, and
\* any other variant yields ErrUnsupportedIdentity and leaves p.authorizer
\* as it was.
C3_IdentityDispatchExhaustive ==
    [][(pc = "dispatch" /\ pc' # "dispatch") =>
        LET id == input.Identity IN
        CASE id.variant = "oidc.Identity" ->
                /\ setupErr' = NoError
                /\ authorizer'.kind = "bearer"
                /\ authorizer'.token = id.token
          [] id.variant = "azid.AuthorizerIdentity" ->
                /\ setupErr' = NoError
                /\ authorizer' = id.authorizer
          [] OTHER ->
                /\ setupErr' = ErrUnsupportedIdentity
                /\ authorizer' = authorizer]_vars

\* a second call on the instance was refused for a third variant, and the
\* bearer authorizer an earlier oidc.Identity had resolved is still in place
C3_Witness ==
    /\ Returned
    /\ ncalls = 2
    /\ input.Identity.variant \notin {"oidc.Identity", "azid.AuthorizerIdentity"}
    /\ setupErr = ErrUnsupportedIdentity
    /\ authorizer.kind = "bearer"

\* C4: an identity of an identity provider outside the registered
\* SupportedIdentityProviders is refused by setup with the unsupported
\* identity error, whatever its variant.
C4_UnsupportedProviderRejected ==
    (Dispatched /\ input.Identity.idp \notin SupportedIdentityProviders)
        => /\ setupErr # NoError
           /\ Root(setupErr) = Root(ErrUnsupportedIdentity)

\* C5: every list or describe call of a Discover call is made after setup has
\* returned nil, with the config bound and the authorizer resolved; a call
\* whose setup failed makes none.
C5_SetupBeforeCollaborators ==
    /\ calls # <<>> => /\ pc \in {"describe", "returned"}
                       /\ setupErr = NoError
                       /\ ~config.isNil
                       /\ authorizer # NilAuthorizer
    /\ pc \in {"setup", "dispatch"} => calls = <<>>
    /\ setupErr # NoError => (Returned /\ calls = <<>>)

\* the list call and a describe call were made, after a successful setup
C5_Witness ==
    /\ Returned
    /\ Len(calls) >= 2
    /\ setupErr = NoError
    /\ ret.err = NoError

\* the list call and every describe call of the running call succeeded
AllDescribed ==
    /\ Returned
    /\ Len(clusters) > 0
    /\ Len(calls) = Len(clusters) + 1
    /\ \A k \in 1..Len(calls) : calls[k].err = NoError

\* C6: when the list call returns names and every describe succeeds, Discover
\* returns no error and a map whose keys are exactly the ids describe
\* returned, each mapped to a record describe returned with that id.
C6_AllDescribedOutput ==
    AllDescribed
        => /\ ret.err = NoError
           /\ ~ret.out.isNil
           /\ DOMAIN ret.out.Clusters = {calls[k].out.Arn : k \in 2..Len(calls)}
           /\ \A id \in DOMAIN ret.out.Clusters :
                \E k \in 2..Len(calls) :
                    /\ calls[k].out.Arn = id
                    /\ ret.out.Clusters[id].ID = id
                    /\ ret.out.Clusters[id].Name = calls[k].out.Name
                    /\ ret.out.Clusters[id].ControlPlaneEndpoint = calls[k].out.Endpoint
                    /\ ret.out.Clusters[id].CertificateAuthorityData = calls[k].out.CA

\* two clusters with different ids were described, one without an endpoint
C6_Witness ==
    /\ AllDescribed
    /\ Cardinality(DOMAIN ret.out.Clusters) = 2
    /\ \E id \in DOMAIN ret.out.Clusters : ret.out.Clusters[id].ControlPlaneEndpoint = "nil"
    /\ \E id \in DOMAIN ret.out.Clusters : ret.out.Clusters[id].Name = "b"

\* the list call of the running call returned no name and no error
ListedNone ==
    /\ Returned
    /\ calls # <<>>
    /\ calls[1].err = NoError
    /\ calls[1].names = <<>>

\* C7: when the list call returns an empty sequence, Discover returns a
\* non-nil output with an empty cluster map and no error, and makes no
\* describe call.
C7_ZeroClustersIsSuccess ==
    ListedNone
        => /\ ret.err = NoError
           /\ ~ret.out.isNil
           /\ DOMAIN ret.out.Clusters = {}
           /\ Len(calls) = 1

C7_Witness ==
    /\ ListedNone
    /\ ~ret.out.isNil
    /\ ret.out.DiscoveryProvider = "eks"

\* C8: the error of a refused identity names the identity provider of that
\* identity and the discovery provider.
C8_RejectionNamesBothProviders ==
    (Returned /\ setupErr = ErrUnsupportedIdentity)
        => /\ Mentions(ret.err, input.Identity.idp)
           /\ Mentions(ret.err, "eks")

\* the operation Discover's outermost message names
OuterOperation ==
    CASE setupErr # NoError -> "setting up eks provider"
      [] setupErr = NoError /\ LastCall.op = "list" -> "listing clusters"
      [] OTHER -> "getting cluster config"

\* the error Discover received, from setup or from listClusters/getClusterConfig
InnerError ==
    CASE setupErr # NoError -> setupErr
      [] setupErr = NoError /\ LastCall.op = "list" ->
            Wrap(Frame("listing clusters", {}), LastCall.err)
      [] OTHER ->
            Wrap(Frame("describing cluster", {LastCall.arg}), LastCall.err)

\* no error is swallowed: a failed setup or collaborator call ends the call
\* with an error
NoneSwallowed ==
    /\ (pc \notin {"setup", "dispatch"} /\ setupErr # NoError)
            => (Returned /\ ret.err # NoError)
    /\ \A k \in 1..Len(calls) :
            calls[k].err # NoError => (Returned /\ k = Len(calls) /\ ret.err # NoError)

\* C9 as stated: every error Discover returns is one chain that names the
\* provider and the operation and ends in the original error.
C9_ErrorNamesProviderOperationCause ==
    /\ NoneSwallowed
    /\ (Returned /\ ret.err # NoError)
        => /\ Mentions(ret.err, "eks")
           /\ ret.err[1].text = OuterOperation
           /\ Root(ret.err) = Root(InnerError)

\* C9 as amended: every error Discover returns is one chain whose outermost
\* message names the failed operation, followed unchanged by the error setup,
\* listClusters or getClusterConfig returned, the original error last; a
\* describe error names the cluster; the provider is named by Discover's own
\* message only when setup failed.  No error is swallowed.
C9_ErrorNamesOperationAndCause ==
    /\ NoneSwallowed
    /\ (Returned /\ ret.err # NoError)
        => /\ ret.err[1].text = OuterOperation
           /\ ret.err = Wrap(ret.err[1], InnerError)
           /\ Root(ret.err) = Root(InnerError)
           /\ (setupErr # NoError) <=> ("eks" \in ret.err[1].names)
           /\ (setupErr = NoError /\ LastCall.op = "describe")
                => Mentions(ret.err, LastCall.arg)
           /\ (setupErr = NoError) => Root(ret.err) = Root(LastCall.err)

\* the list call failed with an SDK error that does not name the provider
C9_Witness ==
    /\ Returned
    /\ calls # <<>>
    /\ LastCall.op = "list"
    /\ LastCall.err # NoError
    /\ Len(ret.err) = 3
    /\ ~Mentions(ret.err, "eks")

\* the first call of regLog that registered the name
FirstIndex(name) ==
    CHOOSE i \in 1..Len(regLog) :
        /\ regLog[i].reg.Name = name
        /\ \A j \in 1..(i - 1) : regLog[j].reg.Name # name

\* C10: in any sequence of registrations, a registration under a name already
\* registered fails with DuplicateNameError, and the name stays bound to the
\* first registration: that is what the catalog holds and a lookup returns.
C10_DuplicateNameRefused ==
    /\ \A i \in 1..Len(regLog) :
        regLog[i].err = IF \E j \in 1..(i - 1) : regLog[j].reg.Name = regLog[i].reg.Name
                        THEN ErrDuplicateName
                        ELSE NoError
    /\ DOMAIN registry = {regLog[i].reg.Name : i \in 1..Len(regLog)}
    /\ \A n \in DOMAIN registry : registry[n] = regLog[FirstIndex(n)].reg
    /\ (lastLookup.name # "" /\ lastLookup.err = NoError)
        => lastLookup.reg = regLog[FirstIndex(lastLookup.name)].reg

\* a second, different registration under a registered name was refused; the
\* catalog holds the first one and a lookup returned it
C10_Witness ==
    /\ Len(regLog) >= 2
    /\ regLog[2].reg.Name = regLog[1].reg.Name
    /\ regLog[2].reg # regLog[1].reg
    /\ regLog[2].err = ErrDuplicateName
    /\ lastLookup.name = regLog[1].reg.Name
    /\ lastLookup.reg = regLog[1].reg
    /\ registry[lastLookup.name] = regLog[1].reg

\* the items of a set without their descriptions
ItemTable(cs) ==
    {[name |-> cs[i].name, kind |-> cs[i].kind, default |-> cs[i].default,
      short |-> cs[i].short] : i \in 1..Len(cs)}

\* C11: ConfigurationItems returns, for every scopeTo, a nil error and
\* exactly the five items subscription-id, subscription-name, resource-group
\* (short alias r), admin (bool, false) and cluster-name, the strings with
\* default ""; no other item has a short alias, and neither scopeTo nor the
\* calls made before change the result.
C11_ConfigurationItemsTable ==
    aux.op = "ConfigurationItems"
        => /\ aux.err = NoError
           /\ Len(aux.items) = 5
           /\ ItemTable(aux.items) =
                {[name |-> "subscription-id", kind |-> "string", default |-> "",
                  short |-> ""],
                 [name |-> "subscription-name", kind |-> "string", default |-> "",
                  short |-> ""],
                 [name |-> "resource-group", kind |-> "string", default |-> "",
                  short |-> "r"],
                 [name |-> "admin", kind |-> "bool", default |-> "false",
                  short |-> ""],
                 [name |-> "cluster-name", kind |-> "string", default |-> "",
                  short |-> ""]}

\* the items were asked for with a scope, after a Discover call on the instance
C11_Witness ==
    /\ aux.op = "ConfigurationItems"
    /\ aux.arg = "aad"
    /\ Len(aux.items) = 5
    /\ ncalls = 1
    /\ Returned

\* C12: ListPreReqs returns an empty sequence and CheckPreReqs returns nil in
\* every state of the provider (before setup, after a setup that succeeded or
\* failed), and neither changes p.config or p.authorizer.
C12_NoPreReqs ==
    /\ aux.op = "ListPreReqs"
        => /\ aux.items = <<>>
           /\ Fields(config, authorizer) = aux.before
    /\ aux.op = "CheckPreReqs"
        => /\ aux.err = NoError
           /\ Fields(config, authorizer) = aux.before

\* CheckPreReqs was called after a setup that failed on the identity, with the
\* config that setup had bound still in place
C12_Witness ==
    /\ aux.op = "CheckPreReqs"
    /\ Returned
    /\ setupErr = ErrUnsupportedIdentity
    /\ ~config.isNil
    /\ aux.before.config = config

\* the state of the orchestration state machine the provider is in
Phase ==
    CASE pc \in {"created", "setup"} -> "Created"
      [] pc = "dispatch" -> "Configured"
      [] pc = "list" -> "Authorized"
      [] pc \in {"listing", "describe"} -> "Discovering"
      [] pc = "returned" /\ ret.err = NoError -> "Completed"
      [] pc = "returned" /\ ret.err # NoError -> "Failed"
      [] OTHER -> "None"

PhaseSteps ==
    {<<"Created", "Configured">>, <<"Configured", "Authorized">>,
     <<"Authorized", "Discovering">>, <<"Discovering", "Completed">>,
     <<"Created", "Failed">>, <<"Configured", "Failed">>,
     <<"Discovering", "Failed">>}

\* a list or describe call that fails
CollaboratorFails ==
    \/ \E sdk \in SdkListResults : sdk.err # NoError /\ ListClusters(sdk)
    \/ /\ pc = "describe"
       /\ \E sdk \in SdkDescribeResults(clusters[idx]) :
            sdk.err # NoError /\ DescribeStep(sdk)

\* from every state of a call that is not terminal a step is possible, and in
\* Discovering a step into Failed is: with PhaseSteps, Failed can be reached
\* from each of them
FailedReachable ==
    /\ pc = "created" => ENABLED (\E in \in DiscoverInputs : DiscoverBegin(in))
    /\ pc = "setup" => ENABLED SetupUnmarshall
    /\ pc = "dispatch" => ENABLED SetupDispatch
    /\ pc = "list" => ENABLED DiscoverListing
    /\ pc \in {"listing", "describe"} => ENABLED CollaboratorFails

\* C13: a Discover call goes Created -> Configured -> Authorized ->
\* Discovering in this order, without skipping a state or going back, and
\* ends in Completed or in Failed, which it does not leave; list and describe
\* calls are made in Discovering only; Failed can be reached from every state
\* that is not terminal.
C13_StateMachine ==
    /\ []FailedReachable
    /\ [][/\ \/ Phase' = Phase
             \/ Phase = "None"
             \/ ncalls' = ncalls + 1 /\ Phase' = "Created"
             \/ ncalls' = ncalls /\ <<Phase, Phase'>> \in PhaseSteps
          /\ (calls' # calls /\ ncalls' = ncalls) => Phase = "Discovering"]_vars

\* a call went through every state and failed on its second describe call
C13_Witness ==
    /\ Phase = "Failed"
    /\ setupErr = NoError
    /\ Len(calls) = 3

\* C14: the describe calls follow the one list call, one per listed name and
\* in the order of the list; none follows a failed call; the error returned
\* after a failed describe is that call's error, wrapped, and nothing else;
\* so a call ends after one list call and at most Len(clusters) describe
\* calls, and while it has not ended its next call can return.
C14_SequentialDescribes ==
    /\ calls # <<>> => calls[1].op = "list"
    /\ (calls # <<>> /\ calls[1].err = NoError) => clusters = calls[1].names
    /\ Len(calls) <= 1 + Len(clusters)
    /\ \A k \in 2..Len(calls) :
        /\ calls[k].op = "describe"
        /\ calls[k].arg = clusters[k - 1]
    /\ \A k \in 1..Len(calls) :
        calls[k].err # NoError => (k = Len(calls) /\ Returned)
    /\ \A k \in 1..Len(calls) :
        DescribeFailedAt(k)
            => ret.err = Wrap(Frame("getting cluster config", {}),
                              Wrap(Frame("describing cluster", {clusters[k - 1]}),
                                   calls[k].err))
    /\ pc = "describe" => (idx = Len(calls) /\ idx <= Len(clusters))
    /\ pc = "listing" => ENABLED (\E sdk \in SdkListResults : ListClusters(sdk))
    /\ pc = "describe" => ENABLED DescribeCluster
    /\ (Returned /\ setupErr = NoError /\ ret.err = NoError)
        => Len(calls) = 1 + Len(clusters)

\* two different names were listed; the first describe succeeded, the second
\* failed and ended the call
C14_Witness ==
    /\ Returned
    /\ clusters = <<"b", "a">>
    /\ Len(calls) = 3
    /\ calls[2].err = NoError
    /\ calls[2].arg = "b"
    /\ DescribeFailedAt(3)
    /\ Len(ret.err) = 3

\* setup has returned nil in the running call, or in the call that has just
\* returned
SetupSucceeded ==
    \/ pc \in {"list", "listing", "describe"}
    \/ (Returned /\ setupErr = NoError)

\* C15: once setup has succeeded in a Discover call the instance holds the
\* configuration bound from that call's ConfigSet and the authorizer resolved
\* from that call's identity, whatever earlier calls left behind; collaborator
\* calls are made only after the setup of the same call has succeeded.
C15_FieldsFromSameSetup ==
    /\ SetupSucceeded =>
        /\ ~config.isNil
        /\ config = Unmarshall(input.ConfigSet).cfg
        /\ input.Identity.variant \in {"oidc.Identity", "azid.AuthorizerIdentity"}
        /\ input.Identity.variant = "oidc.Identity"
            => authorizer = [kind |-> "bearer", token |-> input.Identity.token,
                             name |-> ""]
        /\ input.Identity.variant = "azid.AuthorizerIdentity"
            => authorizer = input.Identity.authorizer
    /\ calls # <<>> => SetupSucceeded
    /\ pc = "setup" => (calls = <<>> /\ setupErr = NoError)

\* the second Discover call on the instance makes a collaborator call after a
\* setup with a prebuilt authorizer
C15_Witness ==
    /\ ncalls = 2
    /\ pc = "describe"
    /\ input.Identity.variant = "azid.AuthorizerIdentity"
    /\ authorizer.name = "authz2"
    /\ config.Admin

\* C17: when config.Unmarshall fails, setup returns the wrapped unmarshalling
\* error and the type switch is not reached; config and authorizer stay as
\* they were, and Discover returns a nil output and an error without a
\* collaborator call.
C17_BindFailureLeavesFields ==
    [][(pc = "setup" /\ ~UnmarshallOk(input.ConfigSet))
        => /\ pc' = "returned"
           /\ config' = config
           /\ authorizer' = authorizer
           /\ setupErr' = Wrap(Frame("unmarshalling config items into eksClusteProviderConfig",
                                     {}), ErrUnmarshall)
           /\ ret'.out.isNil
           /\ ret'.err # NoError
           /\ Root(ret'.err) = Root(ErrUnmarshall)
           /\ calls' = <<>>]_vars

\* the second call on an instance fails to bind; the instance still holds the
\* fields of the first call
C17_Witness ==
    /\ Returned
    /\ ncalls = 2
    /\ ~UnmarshallOk(input.ConfigSet)
    /\ setupErr # NoError
    /\ ~config.isNil
    /\ authorizer.kind # "nil"
    /\ calls = <<>>
    /\ ret.out.isNil

\* C18: New without an HTTP client returns ErrHTTPClientRequired and no
\* provider; with one it returns a provider and no error, and the provider's
\* config and authorizer are unset.
C18_NewRequiresHTTPClient ==
    [][pc = "none"
        => \A in \in CreationInputs :
            newResult' = New(in)
                => /\ in.HTTPClient = "nil"
                    => /\ newResult'.err = ErrHTTPClientRequired
                       /\ ~newResult'.provider
                       /\ pc' = "none"
                   /\ in.HTTPClient # "nil"
                    => /\ newResult'.err = NoError
                       /\ newResult'.provider
                       /\ pc' = "created"
                       /\ config' = NilConfig
                       /\ authorizer' = NilAuthorizer]_vars

\* a creation refused for the missing client, no instance made
C18_Witness ==
    /\ pc = "none"
    /\ newResult.err = ErrHTTPClientRequired
    /\ ~newResult.provider

\* the setup of the running call is going to return an error
SetupWillFail ==
    \/ ~UnmarshallOk(input.ConfigSet)
    \/ setupDispatch(input.Identity, authorizer).err # NoError

\* C19 as stated: no step of a setup that returns an error changes the
\* config or the authorizer of the instance.
C19_SetupAllOrNothing ==
    [][(pc \in {"setup", "dispatch"} /\ SetupWillFail)
        => (config' = config /\ authorizer' = authorizer)]_vars

\* C19: a setup that returns an error leaves the authorizer as it was; it
\* leaves the config as it was when the binding failed, and when the identity
\* is unsupported the config is already the one bound from this call's
\* ConfigSet.
C19_SetupErrorKeepsAuthorizer ==
    /\ [][(pc \in {"setup", "dispatch"} /\ SetupWillFail)
            => /\ authorizer' = authorizer
               /\ ~UnmarshallOk(input.ConfigSet) => config' = config
               /\ pc = "dispatch" => config' = config
               /\ config' # config => config' = Unmarshall(input.ConfigSet).cfg]_vars
    /\ [](Returned /\ setupErr = ErrUnsupportedIdentity
            => config = Unmarshall(input.ConfigSet).cfg)

\* the second call fails on its identity: the config is this call's, the
\* authorizer is still the one the first call resolved
C19_Witness ==
    /\ Returned
    /\ ncalls = 2
    /\ setupErr = ErrUnsupportedIdentity
    /\ authorizer.kind = "bearer"
    /\ config = Unmarshall(input.ConfigSet).cfg

\* C20: Discover returns either an output or an error, never both and never
\* neither; an output has a map, the two provider names, and every key of the
\* map is the ID of the cluster stored under it.
C20_OutputXorError ==
    Returned =>
        /\ ret.out.isNil <=> ret.err # NoError
        /\ ~ret.out.isNil =>
            /\ ~ret.out.ClustersIsNil
            /\ ret.out.DiscoveryProvider # ""
            /\ ret.out.IdentityProvider # ""
            /\ \A k \in DOMAIN ret.out.Clusters : ret.out.Clusters[k].ID = k

\* an output with two clusters was returned
C20_Witness ==
    /\ Returned
    /\ ret.err = NoError
    /\ ~ret.out.isNil
    /\ Cardinality(DOMAIN ret.out.Clusters) = 2

\* the fields a setup with invocation k's arguments binds and resolves
Own(k) ==
    Fields(Unmarshall(invs[k].input.ConfigSet).cfg,
           setupDispatch(invs[k].input.Identity, NilAuthorizer).authorizer)

\* C16 as stated: whatever instances the two invocations run on, every
\* collaborator call of an invocation reads the config and authorizer of its
\* own setup.
C16_NeverObservesOther ==
    \A k \in Invocations :
        invs[k].observed # NoFields => invs[k].observed = Own(k)

\* C16: when the two invocations run on instances from different New calls,
\* every collaborator call of an invocation reads the config and authorizer
\* of its own setup, and its instance holds them from the return of setup on.
C16_IsolatedOnOwnInstance ==
    \A k \in Invocations :
        invs[Other(k)].newCall # invs[k].newCall =>
            /\ invs[k].observed # NoFields => invs[k].observed = Own(k)
            /\ invs[k].pc \in {"list", "describe"} => provs[InstanceOf(k)] = Own(k)

\* both invocations are in their describe loops at once, each on its own
\* instance
C16_Witness ==
    /\ invs["A"].pc = "describe"
    /\ invs["B"].pc = "describe"
    /\ invs["A"].newCall # invs["B"].newCall
    /\ invs["A"].observed # NoFields
    /\ invs["B"].observed # NoFields
    /\ invs["A"].input.Identity.variant = invs["B"].input.Identity.variant

=============================================================================
